---- MODULE Spec2Model ----
(***************************************************************************)
(* Polyhedron partitions and induction of piecewise rotations              *)
(* (slabbe/polyhedron_partition.py).                                       *)
(*                                                                         *)
(* Geometry.  The polytope primitive (Sage's Polyhedron) is external to    *)
(* the repository.  Here a polytope is the set of the faces of a fixed     *)
(* rectangular cell complex that it contains.  A face is a pair <<i, j>>   *)
(* of doubled coordinates: an even i is the vertical line x0 = i/2, an odd *)
(* i the open strip (i-1)/2 < x0 < (i+1)/2; likewise j for the horizontal  *)
(* bands.  A face with both coordinates odd is a 2-cell; it is the only    *)
(* kind of face with a volume.  Intersection, inclusion and equality of    *)
(* polytopes are intersection, inclusion and equality of sets of faces,    *)
(* and a translation by a whole number of columns is a shift of i.  The    *)
(* representation is exact for closed boxes of the grid, degenerate ones   *)
(* (segments, points) included.                                            *)
(*                                                                         *)
(* One column is 1/3 wide.  The four bands are those of the 4-atom         *)
(* partition documented in the module docstring, drawn in the chart that   *)
(* straightens, in each column, the lines y = 1/3 + 2x, y = x/2 and        *)
(* y = x/2 + 1/6 (taken modulo 1/3 in x) which bound its atoms; the areas  *)
(* of the 2-cells of the bands are 1/36, 2/36, 5/36 and 4/36.              *)
(***************************************************************************)
EXTENDS Integers, Sequences, FiniteSets, TLC

(* Bounds of the model *)
GridW == 3
MaxAtoms == 2
MaxLevel == 6

BandArea == <<1, 2, 5, 4>>
NBands == Len(BandArea)

Universe == ((-2 * GridW) .. (2 * GridW)) \X (0 .. (2 * NBands))

IsCell(c) == (c[1] % 2 = 1) /\ (c[2] % 2 = 1)

RECURSIVE SumBands(_, _)
SumBands(p, b) ==
    IF b = 0 THEN 0
    ELSE BandArea[b] * Cardinality({c \in p : IsCell(c) /\ c[2] = 2 * b - 1})
         + SumBands(p, b - 1)

(* p.volume(), in units of 1/36 *)
volume(p) == SumBands(p, NBands)

(* Polyhedron(vertices of the box [x1,x2] x [y1,y2]) *)
Box(x1, x2, y1, y2) == ((2 * x1) .. (2 * x2)) \X ((2 * y1) .. (2 * y2))

(* Polyhedron(ieqs=[ieq]): ieq = <<b, a0, a1>> stands for b + a0*x0 + a1*x1 >= 0; *)
(* the model has a1 = 0 and b in column units                                  *)
Polyhedron_ieqs(ieq) == {c \in Universe : 2 * ieq[1] + ieq[2] * c[1] >= 0}

Negated(ieq) == <<-ieq[1], -ieq[2], -ieq[3]>>

Shift(p, delta) == {<<c[1] + 2 * delta, c[2]>> : c \in p}

(* the translation by angle, with no reduction modulo mod *)
translation_only(angle, mod, p) == Shift(p, angle)

(* rotation_mod(i, angle, mod, base_ring) applied to p, for i = 0 *)
rotation_mod(angle, mod, p) ==
    IF \A c \in p : c[1] <= 2 * (mod - angle)
    THEN Shift(p, angle)
    ELSE Shift(p, angle - mod)

(* trans(p): trans is lambda p: rotation_mod(0, angle, mod, QQ)(p), or, for *)
(* a record with the field ieq, lambda p: p & Polyhedron(ieqs=[ieq]), a map *)
(* which does not preserve the volume                                       *)
Apply(t, p) ==
    IF "ieq" \in DOMAIN t
    THEN p \cap Polyhedron_ieqs(t.ieq)
    ELSE rotation_mod(t.angle, t.mod, p)

RECURSIVE Iterate(_, _, _)
Iterate(t, n, p) == IF n = 0 THEN p ELSE Iterate(t, n - 1, Apply(t, p))

(***************************************************************************)
(* Partitions: a function from a finite set of keys (naturals) to atoms.   *)
(* A dict is iterated in ascending key order.                              *)
(***************************************************************************)
RECURSIVE KeySeq(_)
KeySeq(K) ==
    IF K = {} THEN << >>
    ELSE LET m == CHOOSE k \in K : \A l \in K : k <= l
         IN <<m>> \o KeySeq(K \ {m})

len(Q) == Cardinality(DOMAIN Q)

keys(Q) == KeySeq(DOMAIN Q)

atoms(Q) == LET ks == keys(Q) IN [n \in 1 .. Len(ks) |-> Q[ks[n]]]

cached_atoms_set(Q) == {Q[k] : k \in DOMAIN Q}

contains(Q, p) == p \in cached_atoms_set(Q)

PartitionFromList(L) == [k \in 0 .. (Len(L) - 1) |-> L[k + 1]]

EmptyDict == [k \in {} |-> {}]

(* "not empty" in the place of "of positive volume" *)
NonEmpty(p) == p # {}

PositiveVolume(p) == volume(p) > 0

(* the atom of the first operand in the place of the intersection *)
refinement_uncut(Q, other) ==
    LET A == atoms(Q)
        B == atoms(other)
        all == [n \in 1 .. (Len(A) * Len(B)) |->
                   IF volume(A[((n - 1) \div Len(B)) + 1] \cap B[((n - 1) % Len(B)) + 1]) > 0
                   THEN A[((n - 1) \div Len(B)) + 1]
                   ELSE {}]
    IN PartitionFromList(SelectSeq(all, PositiveVolume))

refinement(Q, other) ==
    LET A == atoms(Q)
        B == atoms(other)
        all == [n \in 1 .. (Len(A) * Len(B)) |->
                   A[((n - 1) \div Len(B)) + 1] \cap B[((n - 1) % Len(B)) + 1]]
    IN PartitionFromList(SelectSeq(all, PositiveVolume))

(* the volume of the first atom only is compared *)
volume_preserved_first(Q, t) ==
    volume(Q[keys(Q)[1]]) = volume(Apply(t, Q[keys(Q)[1]]))

(* every atom becomes the image of the first atom *)
apply_transformation_first(Q, t) == [k \in DOMAIN Q |-> Apply(t, Q[keys(Q)[1]])]

volume_preserved(Q, t) == \A k \in DOMAIN Q : volume(Q[k]) = volume(Apply(t, Q[k]))

apply_transformation(Q, t) == [k \in DOMAIN Q |-> Apply(t, Q[k])]

(* the atoms which p meets in the place of the atoms which contain p *)
code_list_meets(Q, p) == {k \in DOMAIN Q : p \cap Q[k] # {}}

code_list(Q, p) == {k \in DOMAIN Q : p \subseteq Q[k]}

code_ok(Q, p) == Cardinality(code_list(Q, p)) = 1

code(Q, p) == CHOOSE k \in code_list(Q, p) : TRUE

(* the number of keys in the place of the smallest unused key *)
find_len_key(d) == Cardinality(DOMAIN d)

find_unused_key(d) ==
    CHOOSE a \in 0 .. Cardinality(DOMAIN d) :
        a \notin DOMAIN d /\ \A b \in 0 .. (a - 1) : b \in DOMAIN d


(***************************************************************************)
(* Inputs of a call P.induced_partition(trans, trans_inv, ieq)             *)
(***************************************************************************)
XRanges == {r \in (0 .. GridW) \X (0 .. GridW) : r[1] < r[2]}

RangeRank(r) == r[1] * (GridW + 1) + r[2]

RECURSIVE RangeSets(_)
RangeSets(n) ==
    IF n = 0 THEN {{}}
    ELSE RangeSets(n - 1) \cup {S \cup {r} : S \in RangeSets(n - 1), r \in XRanges}

RECURSIVE RangeSeq(_)
RangeSeq(S) ==
    IF S = {} THEN << >>
    ELSE LET m == CHOOSE r \in S : \A q \in S : RangeRank(r) <= RangeRank(q)
         IN <<m>> \o RangeSeq(S \ {m})

FullBox(r) == Box(r[1], r[2], 0, NBands)

(* PolyhedronPartition([p, q, ...]): keys 0..n-1 *)
ListPartition(S) ==
    LET L == RangeSeq(S)
    IN [k \in 0 .. (Len(L) - 1) |-> FullBox(L[k + 1])]

(* PolyhedronPartition({1: ..., 3: ...}): odd keys, atoms in the opposite order *)
DictPartition(S) ==
    LET L == RangeSeq(S)
    IN [k \in {2 * n - 1 : n \in 1 .. Len(L)} |-> FullBox(L[Len(L) + 1 - ((k + 1) \div 2)])]

(* The partition {0:p, 1:q, 2:r, 3:s} of the unit square of the docstrings  *)
(* (h = 1/3), each atom given by its 2-cells                                *)
DocP ==
    (0 :> {<<1, 7>>}) @@
    (1 :> {<<1, 1>>, <<1, 3>>, <<1, 5>>}) @@
    (2 :> {<<3, 3>>, <<3, 5>>, <<3, 7>>, <<5, 5>>, <<5, 7>>}) @@
    (3 :> {<<3, 1>>, <<5, 1>>, <<5, 3>>})

Overlap(r, q) == r[1] < q[2] /\ q[1] < r[2]

(* up to MaxAtoms atoms with disjoint interiors, or two atoms that overlap *)
InputSets ==
    {S \in RangeSets(MaxAtoms) \ {{}} : \A r, q \in S : r = q \/ ~Overlap(r, q)}
    \cup {{r, q} : r, q \in XRanges}

InputPartitions ==
    {DocP} \cup {ListPartition(S) : S \in InputSets} \cup {DictPartition(S) : S \in InputSets}

(* the vertical segments x0 = x of the grid, polytopes of volume zero *)
SegmentRanges == {<<x, x>> : x \in 0 .. GridW}

(* partitions with an atom of volume zero, alone or next to a box *)
DegeneratePartitions ==
    {ListPartition({r}) : r \in SegmentRanges}
    \cup {ListPartition({r, q}) : r \in SegmentRanges, q \in XRanges}

(* the partitions on which the methods other than the inductions are called *)
MethodPartitions == InputPartitions \cup DegeneratePartitions

Rotations == {[angle |-> a, mod |-> m] : a \in 1 .. (GridW - 1), m \in 2 .. GridW}
             \cap {t \in [angle : 1 .. GridW, mod : 2 .. GridW] : t.angle < t.mod}

Inequalities == {<<h, -1, 0>> : h \in 0 .. GridW} \cup {<<-h, 1, 0>> : h \in 0 .. GridW}

(* self, trans, trans_inv, ieq: the receiver and the arguments of the call; *)
(* pc: the place reached in the code; raised: the exception raised, if any, *)
(* with the function that raised it; P, level, ans: the locals of           *)
(* induced_out_partition; in_partition: the local of induced_in_partition;  *)
(* d, return_time_dict, substitution: the locals of induced_partition;      *)
(* ncalls: the number of calls of trans made by induced_out_partition;      *)
(* arg_other, refined: the argument and the result of a call               *)
(* self.refinement(other); history: the calls which returned before the    *)
(* current one, each with its arguments and results;                       *)
(* arg: the argument of a call of another method of self (a polytope, a    *)
(* mapping of keys or a transformation); ret: what that call returns       *)
VARIABLES self, trans, trans_inv, ieq, pc, raised, P, level, ans, in_partition,
          d, return_time_dict, substitution, ncalls, arg_other, refined, history,
          arg, ret

vars == <<self, trans, trans_inv, ieq, pc, raised, P, level, ans, in_partition,
          d, return_time_dict, substitution, ncalls, arg_other, refined, history,
          arg, ret>>

args == <<self, trans, trans_inv, ieq>>

(* what a call of induced_partition leaves alone *)
aside == <<arg_other, refined, history, arg, ret>>

Init ==
    /\ self \in InputPartitions
    /\ trans \in Rotations
    /\ trans_inv \in {t \in Rotations : t.mod = trans.mod}
    /\ ieq \in Inequalities
    /\ pc = "call"
    /\ raised = << >>
    /\ P = EmptyDict
    /\ level = 0
    /\ ans = EmptyDict
    /\ in_partition = EmptyDict
    /\ d = EmptyDict
    /\ return_time_dict = EmptyDict
    /\ substitution = EmptyDict
    /\ ncalls = 0
    /\ arg_other = EmptyDict
    /\ refined = EmptyDict
    /\ history = << >>
    /\ arg = << >>
    /\ ret = << >>

half_part == PartitionFromList(<<Polyhedron_ieqs(ieq)>>)

other_half_part == PartitionFromList(<<Polyhedron_ieqs(Negated(ieq))>>)

(* induced_out_partition, up to the loop: the initial refinement and the   *)
(* first application of trans                                               *)
OutStart ==
    /\ pc = "call"
    /\ LET P0 == refinement(self, half_part)
       IN IF len(P0) = 0
          THEN /\ pc' = "raised"
               /\ raised' = <<"ValueError", "induced_out_partition">>
               /\ UNCHANGED <<P, level, ans, ncalls>>
          ELSE IF ~volume_preserved(P0, trans)
          THEN /\ pc' = "raised"
               /\ raised' = <<"AssertionError", "apply_transformation">>
               /\ UNCHANGED <<P, level, ans, ncalls>>
          ELSE /\ P' = apply_transformation(P0, trans)
               /\ level' = 1
               /\ ans' = EmptyDict
               /\ ncalls' = ncalls + len(P0)
               /\ pc' = "loop"
               /\ UNCHANGED raised
    /\ UNCHANGED <<args, aside, in_partition, d, return_time_dict, substitution>>

(* the remainder without the cut by the atoms of self *)
remainder_uncut(Q, S) == refinement(Q, other_half_part)

(* the remainder with the returned part left in *)
remainder_whole(Q, S) == refinement(Q, S)

(* the remainder carried to the next level: what did not return, cut by    *)
(* the atoms of self                                                        *)
remainder(Q, S) == refinement(refinement(Q, other_half_part), S)

(* one iteration of the while loop of induced_out_partition *)
OutLoop ==
    /\ pc = "loop"
    /\ len(P) > 0
    /\ level < MaxLevel
    /\ LET P_returned == refinement(P, half_part)
           P_rest == remainder(P, self)
       IN IF ~volume_preserved(P_rest, trans)
          THEN /\ pc' = "raised"
               /\ raised' = <<"AssertionError", "apply_transformation">>
               /\ UNCHANGED <<P, level, ans, ncalls>>
          ELSE /\ ans' = IF len(P_returned) > 0
                         THEN (level :> P_returned) @@ ans
                         ELSE ans
               /\ P' = apply_transformation(P_rest, trans)
               /\ level' = level + 1
               /\ ncalls' = ncalls + len(P_rest)
               /\ pc' = "loop"
               /\ UNCHANGED raised
    /\ UNCHANGED <<args, aside, in_partition, d, return_time_dict, substitution>>

(* the loop with a cap on the number of iterations *)
OutReturnAtCap ==
    /\ pc = "loop"
    /\ len(P) = 0 \/ level >= 2
    /\ pc' = "out_returned"
    /\ UNCHANGED <<args, aside, raised, P, level, ans, in_partition, d,
                   return_time_dict, substitution, ncalls>>

(* the loop ends on an empty remainder: return ans *)
OutReturn ==
    /\ pc = "loop"
    /\ len(P) = 0
    /\ pc' = "out_returned"
    /\ UNCHANGED <<args, aside, raised, P, level, ans, in_partition, d,
                   return_time_dict, substitution, ncalls>>

(* one application less *)
RECURSIVE ApplyTimes_short(_, _, _)
ApplyTimes_short(Q, t, n) ==
    IF n <= 1 THEN Q ELSE ApplyTimes_short(apply_transformation(Q, t), t, n - 1)

RECURSIVE ApplyTimes(_, _, _)
ApplyTimes(Q, t, n) ==
    IF n = 0 THEN Q ELSE ApplyTimes(apply_transformation(Q, t), t, n - 1)

RECURSIVE PreservedTimes(_, _, _)
PreservedTimes(Q, t, n) ==
    IF n = 0 THEN TRUE
    ELSE volume_preserved(Q, t) /\ PreservedTimes(apply_transformation(Q, t), t, n - 1)

(* induced_in_partition, after its call of induced_out_partition has returned *)
InPartition ==
    /\ pc = "out_returned"
    /\ IF \A i \in DOMAIN ans : PreservedTimes(ans[i], trans_inv, i)
       THEN /\ in_partition' = [i \in DOMAIN ans |-> ApplyTimes(ans[i], trans_inv, i)]
            /\ pc' = "in_returned"
            /\ UNCHANGED raised
       ELSE /\ pc' = "raised"
            /\ raised' = <<"AssertionError", "apply_transformation">>
            /\ UNCHANGED in_partition
    /\ UNCHANGED <<args, aside, P, level, ans, d, return_time_dict, substitution, ncalls>>

(* the atoms of the in-partition family, in the order of the two nested    *)
(* loops of induced_partition: <<return_time, p>>                          *)
RECURSIVE InSeq(_, _)
InSeq(family, times) ==
    IF times = << >> THEN << >>
    ELSE LET t == Head(times)
             A == atoms(family[t])
         IN [n \in 1 .. Len(A) |-> <<t, A[n]>>] \o InSeq(family, Tail(times))

(* first loop of induced_partition: the atoms which are atoms of self keep *)
(* the key they have in self, the others are set aside                     *)
RECURSIVE Recognize(_, _, _)
Recognize(Q, seq, acc) ==
    IF seq = << >> \/ ~acc.ok THEN acc
    ELSE LET t == Head(seq)[1]
             p == Head(seq)[2]
         IN IF contains(Q, p)
            THEN IF code_ok(Q, p)
                 THEN Recognize(Q, Tail(seq),
                                [acc EXCEPT !.d = (code(Q, p) :> p) @@ @,
                                            !.rt = (code(Q, p) :> t) @@ @])
                 ELSE [acc EXCEPT !.ok = FALSE]
            ELSE Recognize(Q, Tail(seq),
                           [acc EXCEPT !.new = Append(@, <<t, p>>)])

(* second loop of induced_partition: a fresh key for each atom set aside *)
RECURSIVE Mint(_, _)
Mint(seq, acc) ==
    IF seq = << >> THEN acc
    ELSE LET key == find_unused_key(acc.d)
         IN Mint(Tail(seq),
                 [acc EXCEPT !.d = (key :> Head(seq)[2]) @@ @,
                             !.rt = (key :> Head(seq)[1]) @@ @])

(* induced_partition, after its call of induced_in_partition has returned: *)
(* the choice of the keys                                                   *)
Recode ==
    /\ pc = "in_returned"
    /\ LET r1 == Recognize(self, InSeq(in_partition, keys(in_partition)),
                           [d |-> EmptyDict, rt |-> EmptyDict, new |-> << >>, ok |-> TRUE])
           r2 == Mint(r1.new, r1)
       IN IF r1.ok
          THEN /\ d' = r2.d
               /\ return_time_dict' = r2.rt
               /\ pc' = "recoded"
               /\ UNCHANGED raised
          ELSE /\ pc' = "raised"
               /\ raised' = <<"ValueError", "code">>
               /\ UNCHANGED <<d, return_time_dict>>
    /\ UNCHANGED <<args, aside, P, level, ans, in_partition, substitution, ncalls>>

(* the walk recorded from its end *)
return_word_reversed(Q, t, n, p) == [j \in 1 .. n |-> code(Q, Iterate(t, n - j, p))]

return_word(Q, t, n, p) == [j \in 1 .. n |-> code(Q, Iterate(t, j - 1, p))]

return_word_ok(Q, t, n, p) == \A j \in 1 .. n : code_ok(Q, Iterate(t, j - 1, p))

(* induced_partition: the return words, and the return of the partition   *)
(* PolyhedronPartition(d) with the substitution                            *)
Substitution ==
    /\ pc = "recoded"
    /\ IF \A key \in DOMAIN d : return_word_ok(self, trans, return_time_dict[key], d[key])
       THEN /\ substitution' = [key \in DOMAIN d |->
                                   return_word(self, trans, return_time_dict[key], d[key])]
            /\ pc' = "returned"
            /\ UNCHANGED raised
       ELSE /\ pc' = "raised"
            /\ raised' = <<"ValueError", "code">>
            /\ UNCHANGED substitution
    /\ UNCHANGED <<args, aside, P, level, ans, in_partition, d, return_time_dict,
                   ncalls>>

Next == OutStart \/ OutLoop \/ OutReturn \/ InPartition \/ Recode \/ Substitution

Spec == Init /\ [][Next]_vars

(***************************************************************************)
(* Vocabulary of the properties                                            *)
(***************************************************************************)
(* is_pairwise_disjoint returns True (it raises ValueError otherwise) *)
is_pairwise_disjoint(Q) ==
    \A i, j \in DOMAIN Q : i # j => volume(Q[i] \cap Q[j]) = 0

Half == Polyhedron_ieqs(ieq)

OtherHalf == Polyhedron_ieqs(Negated(ieq))

(* induced_out_partition has returned ans *)
OutReturned == pc \in {"out_returned", "in_returned", "recoded", "returned"}
               \/ (pc = "raised" /\ raised[2] = "code")

(* induced_partition has returned PolyhedronPartition(d) and substitution *)
Returned == pc = "returned"

(* the column c of the grid *)
Column(c) == Box(c, c + 1, 0, NBands)

(* trans sends two different columns of the grid to two different places *)
IsInjective(t) ==
    \A b, c \in 0 .. (GridW - 1) : b # c => Apply(t, Column(b)) # Apply(t, Column(c))

(* The pieces of the region still away from it after n applications of     *)
(* trans, each followed by the cut along the atoms of self (n = 0: the     *)
(* pieces of the region themselves)                                         *)
RECURSIVE Away(_)
Away(n) ==
    IF n = 0
    THEN {q \in {self[k] \cap Half : k \in DOMAIN self} : volume(q) > 0}
    ELSE {q \in {Apply(trans, p) \cap OtherHalf \cap self[k] :
                     p \in Away(n - 1), k \in DOMAIN self} : volume(q) > 0}

(* The pieces which are back in the region after exactly L applications *)
FirstReturn(L) ==
    {q \in {Apply(trans, p) \cap Half : p \in Away(L - 1)} : volume(q) > 0}

RegionColumns ==
    {c \in 0 .. (GridW - 1) :
        Column(c) \subseteq Half /\ \E k \in DOMAIN self : volume(self[k] \cap Column(c)) > 0}

(* the orbit of column c under trans comes back into the region within N steps *)
ReturnsWithin(c, N) == \E n \in 1 .. N : Iterate(trans, n, Column(c)) \subseteq Half

(* the return time to the region is bounded by N on every piece of the region *)
ReturnTimeBounded(N) == \A c \in RegionColumns : ReturnsWithin(c, N)

(* C2: for a rotation whose return time to the region is bounded by N on   *)
(* every piece of the region, the loop of induced_out_partition ends and   *)
(* the function returns: each iteration adds one to level, and the         *)
(* remainder is not empty at level L only if the return time is bounded by *)
(* no N < L; so the remainder is empty at level N + 1 at the latest, the   *)
(* loop makes at most N iterations, which is below the cap MaxLevel for    *)
(* N < MaxLevel, and then returns; the largest key of the result is at     *)
(* most N.                                                                  *)
C2_LoopTerminates ==
    /\ [][(pc = "loop" /\ pc' = "loop") => level' = level + 1]_vars
    /\ []((pc = "loop" /\ len(P) > 0) =>
             \A N \in 1 .. (level - 1) : ~ReturnTimeBounded(N))
    /\ [](pc = "out_returned" =>
             \A L \in DOMAIN ans : \A N \in 1 .. (L - 1) : ~ReturnTimeBounded(N))

C2_Witness ==
    /\ OutReturned
    /\ ReturnTimeBounded(GridW)
    /\ ~ReturnTimeBounded(GridW - 1)
    /\ GridW \in DOMAIN ans

(* induced_in_partition has returned in_partition *)
InReturned == pc \in {"in_returned", "recoded", "returned"}
              \/ (pc = "raised" /\ raised[2] = "code")

(* the atom p of the in-partition family has return time t *)
HasReturnTime(p, t) == t \in DOMAIN in_partition /\ contains(in_partition[t], p)

(* C3: the substitution returned by induced_partition has the keys of the  *)
(* returned partition; the word of a key k whose atom p has return time t  *)
(* has length t and its j-th letter (j = 0..t-1) is the key of the only    *)
(* atom of self which contains the image of p by j applications of trans;  *)
(* so each letter is a key of self and the first letter is the key of the  *)
(* atom of self which contains p.                                          *)
C3_ReturnWords ==
    Returned =>
        /\ DOMAIN substitution = DOMAIN d
        /\ \A k \in DOMAIN d :
              \E t \in 1 .. MaxLevel :
                 /\ HasReturnTime(d[k], t)
                 /\ Len(substitution[k]) = t
                 /\ \A j \in 0 .. (t - 1) :
                       /\ substitution[k][j + 1] \in DOMAIN self
                       /\ \A a \in DOMAIN self :
                             Iterate(trans, j, d[k]) \subseteq self[a]
                                 <=> a = substitution[k][j + 1]
                 /\ d[k] \subseteq self[substitution[k][1]]

C3_Witness ==
    /\ Returned
    /\ \E k \in DOMAIN d :
          /\ Len(substitution[k]) >= 3
          /\ Cardinality({substitution[k][j] : j \in 1 .. Len(substitution[k])}) >= 2

RECURSIVE SumLen(_, _)
SumLen(family, K) ==
    IF K = {} THEN 0
    ELSE LET t == CHOOSE x \in K : TRUE
         IN len(family[t]) + SumLen(family, K \ {t})

(* the atoms of the in-partition family *)
InAtoms == UNION {cached_atoms_set(in_partition[t]) : t \in DOMAIN in_partition}

(* the keys of self whose atom is an atom of the in-partition family *)
ReusedKeys == {k \in DOMAIN self : self[k] \in InAtoms}

(* the transformation pair is as the documentation builds it: two          *)
(* rotations of the same period whose angles add up to the period, on a    *)
(* partition of the fundamental domain [0, mod] of the rotation            *)
IsInversePair ==
    /\ trans_inv.mod = trans.mod
    /\ trans_inv.angle = trans.mod - trans.angle
    /\ \A k \in DOMAIN self : self[k] \subseteq Box(0, trans.mod, 0, NBands)

C5_InPartition ==
    pc = "in_returned" =>
        /\ DOMAIN in_partition = DOMAIN ans
        /\ \A L \in DOMAIN ans :
              /\ DOMAIN in_partition[L] = DOMAIN ans[L]
              /\ len(in_partition[L]) = len(ans[L])
              /\ \A k \in DOMAIN ans[L] :
                    in_partition[L][k] = Iterate(trans_inv, L, ans[L][k])
              /\ IsInversePair => ApplyTimes(in_partition[L], trans, L) = ans[L]

C5_Witness ==
    /\ InReturned
    /\ IsInversePair
    /\ \E L \in DOMAIN ans : L >= 2 /\ len(ans[L]) >= 2 /\ in_partition[L] # ans[L]

NoIntersection == \A k \in DOMAIN self : volume(self[k] \cap Half) = 0

(* C6: when no atom of self meets the half-space in a positive volume, the *)
(* call raises ValueError in induced_out_partition before any call of      *)
(* trans, and neither induced_out_partition nor induced_in_partition nor   *)
(* induced_partition returns anything.                                     *)
C6_EmptyRegionRaises ==
    (NoIntersection /\ pc # "call") =>
        /\ pc = "raised"
        /\ raised = <<"ValueError", "induced_out_partition">>
        /\ ncalls = 0
        /\ ~OutReturned /\ ~InReturned /\ ~Returned
        /\ ans = EmptyDict /\ in_partition = EmptyDict
        /\ d = EmptyDict /\ substitution = EmptyDict

C6_Witness == NoIntersection /\ pc = "raised" /\ len(self) >= 2

RECURSIVE Concat(_, _)
Concat(family, times) ==
    IF times = << >> THEN << >>
    ELSE atoms(family[Head(times)]) \o Concat(family, Tail(times))

(* PolyhedronPartition(d[1].atoms() + d[2].atoms() + ...) *)
AllAtoms(family) == PartitionFromList(Concat(family, keys(family)))

(* C7: for a pairwise disjoint partition and an injective transformation,  *)
(* is_pairwise_disjoint returns True on the partition made of all the      *)
(* atoms of all the partitions returned by induced_out_partition.          *)
C7_OutAtomsDisjoint ==
    (pc = "out_returned" /\ is_pairwise_disjoint(self) /\ IsInjective(trans)) =>
        is_pairwise_disjoint(AllAtoms(ans))

C7_Witness ==
    /\ OutReturned
    /\ is_pairwise_disjoint(self)
    /\ IsInjective(trans)
    /\ Cardinality(DOMAIN ans) >= 2
    /\ len(AllAtoms(ans)) >= 3

(* rotation_mod(0, 1/3, 1, QQ), in column units, and its inverse *)
DocTrans == [angle |-> 1, mod |-> 3]

DocTransInv == [angle |-> 2, mod |-> 3]

(* [1/3, -1, 0]: x0 <= 1/3 *)
DocIeq == <<1, -1, 0>>

UnitSquare == Box(0, DocTrans.mod, 0, NBands)

(* the atoms of self cover the unit square *)
CoversUnitSquare ==
    \A c \in UnitSquare : IsCell(c) => \E k \in DOMAIN self : c \in self[k]

(* C8: for the translation by 1/3 modulo 1 and the region x0 <= 1/3, every *)
(* piece of the region returns at time 3 exactly: no key of the mapping    *)
(* returned by induced_out_partition is different from 3, the key 3 is     *)
(* there as soon as self covers the unit square, and for the documented    *)
(* partition in 4 atoms the partition under 3 has 4 atoms.                 *)
C8_ReturnTimeThree ==
    (pc = "out_returned" /\ trans = DocTrans /\ ieq = DocIeq) =>
        /\ DOMAIN ans \subseteq {DocTrans.mod}
        /\ CoversUnitSquare => DOMAIN ans = {DocTrans.mod}
        /\ self = DocP => len(ans[DocTrans.mod]) = 4

C8_Witness ==
    /\ OutReturned /\ trans = DocTrans /\ ieq = DocIeq
    /\ self = DocP
    /\ DOMAIN ans = {DocTrans.mod}
    /\ len(ans[DocTrans.mod]) = 4

(***************************************************************************)
(* A call self.refinement(other)                                           *)
(***************************************************************************)
InitRefinement ==
    /\ self \in MethodPartitions
    /\ arg_other \in MethodPartitions
    /\ trans = DocTrans
    /\ trans_inv = DocTransInv
    /\ ieq = DocIeq
    /\ pc = "call"
    /\ raised = << >>
    /\ P = EmptyDict
    /\ level = 0
    /\ ans = EmptyDict
    /\ in_partition = EmptyDict
    /\ d = EmptyDict
    /\ return_time_dict = EmptyDict
    /\ substitution = EmptyDict
    /\ ncalls = 0
    /\ refined = EmptyDict
    /\ history = << >>
    /\ arg = << >>
    /\ ret = << >>

Refinement ==
    /\ pc = "call"
    /\ refined' = refinement(self, arg_other)
    /\ pc' = "refined"
    /\ UNCHANGED <<args, raised, P, level, ans, in_partition, d, return_time_dict,
                   substitution, ncalls, arg_other, history, arg, ret>>

SpecRefinement == InitRefinement /\ [][Refinement]_vars

(* the pairs of a key of self and a key of other whose atoms meet in a     *)
(* positive volume                                                          *)
KeptPairs ==
    {kl \in (DOMAIN self) \X (DOMAIN arg_other) :
        volume(self[kl[1]] \cap arg_other[kl[2]]) > 0}

(* C10: the atoms of self.refinement(other) are the intersections of an    *)
(* atom of self and an atom of other which have a positive volume, one     *)
(* atom for each such pair of keys; no atom has volume zero; the keys are  *)
(* 0..m-1, m the number of these pairs, whatever the keys of self and of   *)
(* other.                                                                   *)
C10_Refinement ==
    pc = "refined" =>
        /\ DOMAIN refined = 0 .. (Cardinality(KeptPairs) - 1)
        /\ \A k \in DOMAIN refined : volume(refined[k]) > 0
        /\ \A k \in DOMAIN refined :
              \E kl \in KeptPairs : refined[k] = self[kl[1]] \cap arg_other[kl[2]]
        /\ \A kl \in KeptPairs :
              Cardinality({k \in DOMAIN refined :
                              refined[k] = self[kl[1]] \cap arg_other[kl[2]]})
              = Cardinality({mn \in KeptPairs :
                                self[mn[1]] \cap arg_other[mn[2]]
                                = self[kl[1]] \cap arg_other[kl[2]]})

C10_Witness ==
    /\ pc = "refined"
    /\ len(refined) >= 3
    /\ DOMAIN self # 0 .. (len(self) - 1)
    /\ \E k \in DOMAIN self, l \in DOMAIN arg_other :
          self[k] \cap arg_other[l] # {} /\ volume(self[k] \cap arg_other[l]) = 0

(***************************************************************************)
(* Two inductions in a row, as in the docstring of induced_partition:      *)
(*     P1, sub01 = P.induced_partition(u, u_inv, ieq)                      *)
(*     P2, sub02 = P.induced_partition(u, u_inv, ieq2)                     *)
(*     P2_alt, sub12 = P1.induced_partition(u1, u1_inv, ieq2)              *)
(* history keeps the arguments and the results of the calls which have     *)
(* returned; the current call runs in the other variables.                 *)
(***************************************************************************)
inverse(t) == [angle |-> (t.mod - t.angle) % t.mod, mod |-> t.mod]

(* the regions x0 <= h of positive width *)
LeftRegions == {<<h, -1, 0>> : h \in 1 .. GridW}

(* Q is a partition of the fundamental domain [0, mod] of a rotation: its   *)
(* atoms lie in it, cover it and have disjoint interiors                   *)
IsPartitionOf(Q, mod) ==
    /\ \A k \in DOMAIN Q : Q[k] \subseteq Box(0, mod, 0, NBands)
    /\ \A c \in Box(0, mod, 0, NBands) : IsCell(c) => \E k \in DOMAIN Q : c \in Q[k]
    /\ \A k, l \in DOMAIN Q : k # l => volume(Q[k] \cap Q[l]) = 0

(* P: a partition of the fundamental domain of u; the region lies in the   *)
(* fundamental domain                                                       *)
InitCommute ==
    /\ trans \in Rotations
    /\ trans_inv = inverse(trans)
    /\ self \in {Q \in InputPartitions : IsPartitionOf(Q, trans.mod)}
    /\ ieq \in {r \in LeftRegions : r[1] <= trans.mod}
    /\ pc = "call"
    /\ raised = << >>
    /\ P = EmptyDict
    /\ level = 0
    /\ ans = EmptyDict
    /\ in_partition = EmptyDict
    /\ d = EmptyDict
    /\ return_time_dict = EmptyDict
    /\ substitution = EmptyDict
    /\ ncalls = 0
    /\ arg_other = EmptyDict
    /\ refined = EmptyDict
    /\ history = << >>
    /\ arg = << >>
    /\ ret = << >>

returned_call ==
    [self |-> self, trans |-> trans, trans_inv |-> trans_inv, ieq |-> ieq,
     partition |-> d, substitution |-> substitution]

(* a new call starts with fresh locals *)
FreshLocals ==
    /\ pc' = "call"
    /\ P' = EmptyDict
    /\ level' = 0
    /\ ans' = EmptyDict
    /\ in_partition' = EmptyDict
    /\ d' = EmptyDict
    /\ return_time_dict' = EmptyDict
    /\ substitution' = EmptyDict
    /\ ncalls' = 0
    /\ UNCHANGED <<raised, arg_other, refined, arg, ret>>

(* P2, sub02 = P.induced_partition(u, u_inv, ieq2), ieq2 a smaller region *)
SecondCall ==
    /\ pc = "returned"
    /\ Len(history) = 0
    /\ history' = <<returned_call>>
    /\ \E ieq2 \in {r \in LeftRegions : r[1] <= ieq[1]} : ieq' = ieq2
    /\ FreshLocals
    /\ UNCHANGED <<self, trans, trans_inv>>

(* P2_alt, sub12 = P1.induced_partition(u1, u1_inv, ieq2), u1 a rotation   *)
(* whose period is the width of the first region                           *)
ThirdCall ==
    /\ pc = "returned"
    /\ Len(history) = 1
    /\ history' = Append(history, returned_call)
    /\ self' = history[1].partition
    /\ \E a \in 0 .. (history[1].ieq[1] - 1) :
          /\ trans' = [angle |-> a, mod |-> history[1].ieq[1]]
          /\ trans_inv' = inverse([angle |-> a, mod |-> history[1].ieq[1]])
    /\ FreshLocals
    /\ UNCHANGED ieq

NextCommute ==
    \/ OutStart \/ OutLoop \/ OutReturn \/ InPartition \/ Recode \/ Substitution
    \/ SecondCall \/ ThirdCall

SpecCommute == InitCommute /\ [][NextCommute]_vars

(* first loop of keys_permutation: the atoms of Q which are atoms of R *)
RECURSIVE PermRecognize(_, _, _, _)
PermRecognize(Q, R, ks, acc) ==
    IF ks = << >> \/ ~acc.ok THEN acc
    ELSE LET p == Q[Head(ks)]
         IN IF contains(R, p)
            THEN IF code_ok(R, p)
                 THEN PermRecognize(Q, R, Tail(ks),
                                    [acc EXCEPT !.d = (Head(ks) :> code(R, p)) @@ @])
                 ELSE [acc EXCEPT !.ok = FALSE]
            ELSE PermRecognize(Q, R, Tail(ks),
                               [acc EXCEPT !.rest = Append(@, Head(ks))])

(* second loop of keys_permutation: fresh keys, away from the keys of R *)
RECURSIVE PermMint(_, _, _)
PermMint(ks, forbidden_keys, acc) ==
    IF ks = << >> THEN acc
    ELSE LET new_key == find_unused_key([k \in forbidden_keys |-> 0])
         IN PermMint(Tail(ks), forbidden_keys \cup {new_key},
                     (Head(ks) :> new_key) @@ acc)

keys_permutation_ok(Q, R) ==
    PermRecognize(Q, R, keys(Q), [d |-> EmptyDict, rest |-> << >>, ok |-> TRUE]).ok

keys_permutation(Q, R) ==
    LET r == PermRecognize(Q, R, keys(Q), [d |-> EmptyDict, rest |-> << >>, ok |-> TRUE])
    IN PermMint(r.rest, DOMAIN R, r.d)

(* the image of the word w by the morphism WordMorphism(sub) *)
RECURSIVE Image(_, _)
Image(sub, w) == IF w = << >> THEN << >> ELSE sub[Head(w)] \o Image(sub, Tail(w))

(* the first return of column c to the region of the first call, under the *)
(* transformation of the first call                                        *)
RECURSIVE ColumnReturn(_, _)
ColumnReturn(q, n) ==
    LET q1 == Apply(history[1].trans, q)
    IN IF q1 \subseteq Polyhedron_ieqs(history[1].ieq) \/ n = 0
       THEN q1
       ELSE ColumnReturn(q1, n - 1)

(* the transformation pair of the current call is the first return map of  *)
(* the first call's transformation on the first call's region, with its    *)
(* inverse                                                                  *)
IsFirstReturnMap ==
    \A c \in 0 .. (history[1].ieq[1] - 1) :
        /\ ColumnReturn(Column(c), history[1].trans.mod)
              \subseteq Polyhedron_ieqs(history[1].ieq)
        /\ Apply(trans, Column(c)) = ColumnReturn(Column(c), history[1].trans.mod)
        /\ Apply(trans_inv, Apply(trans, Column(c))) = Column(c)

(* the three calls have returned and the transformation pair of the third  *)
(* is the first return map of the first one, with its inverse              *)
Commuted == pc = "returned" /\ Len(history) = 2 /\ IsFirstReturnMap

(* P2_alt == P2, and sub01 * sub12 * perm == sub02 for the key renaming    *)
(* perm = P2.keys_permutation(P2_alt)                                      *)
InductionsAgree ==
    /\ cached_atoms_set(d) = cached_atoms_set(history[2].partition)
    /\ keys_permutation_ok(history[2].partition, d)
    /\ LET perm == keys_permutation(history[2].partition, d)
       IN /\ DOMAIN perm = DOMAIN history[2].partition
          /\ \A k \in DOMAIN perm :
                /\ perm[k] \in DOMAIN substitution
                /\ Image(history[1].substitution, substitution[perm[k]])
                   = history[2].substitution[k]

(* C9: inductions commute.  When the three calls have returned and u1 is    *)
(* the first return map of u on the first region, the partition returned   *)
(* by P1.induced_partition(u1, u1_inv, ieq2) is equal, as a set of atoms,  *)
(* to the one returned by P.induced_partition(u, u_inv, ieq2), and         *)
(* sub01 * sub12 is sub02 up to the key renaming of keys_permutation.      *)
C9_InductionsCommute == Commuted => InductionsAgree

(* no atom of Q lies across the line x0 = mod - angle where the rotation t *)
(* changes its translation: rotation_mod moves such an atom in one piece   *)
OneSide(Q, t) ==
    \A k \in DOMAIN Q :
        \/ \A c \in Q[k] : c[1] <= 2 * (t.mod - t.angle)
        \/ \A c \in Q[k] : c[1] >= 2 * (t.mod - t.angle)

(* the case where C9 fails: an atom of P lies across the cut of u, the     *)
(* first induction gives it a single return time, and the composed         *)
(* substitution is not sub02 although P2_alt == P2                         *)
C9_Straddled ==
    /\ Commuted
    /\ ~OneSide(history[1].self, history[1].trans)
    /\ cached_atoms_set(d) = cached_atoms_set(history[2].partition)
    /\ ~InductionsAgree

(* C9, on partitions cut along the discontinuity of the rotation: when no  *)
(* atom of P lies across the cut of u, the inductions commute.             *)
C9_CommuteOnAdaptedPartitions ==
    (Commuted /\ OneSide(history[1].self, history[1].trans)) => InductionsAgree

C9_AdaptedWitness ==
    /\ Commuted
    /\ OneSide(history[1].self, history[1].trans)
    /\ ieq[1] < history[1].ieq[1]
    /\ len(d) >= 3
    /\ \E k \in DOMAIN d : Len(substitution[k]) >= 2
    /\ \E k \in DOMAIN history[1].substitution : Len(history[1].substitution[k]) >= 2
    /\ \E k \in DOMAIN history[2].partition :
          keys_permutation(history[2].partition, d)[k] # k

(***************************************************************************)
(* Laws of refinement                                                      *)
(***************************************************************************)
(* every atom of Q has a positive volume *)
NoNullAtom(Q) == \A k \in DOMAIN Q : volume(Q[k]) > 0

(* the keys compared together with the atoms *)
eq_keyed(Q, R) == Q = R

(* P == Q: PolyhedronPartition.__eq__ *)
eq(Q, R) == cached_atoms_set(Q) = cached_atoms_set(R)

(* C11, as stated: for every partition P (a collection of atoms with       *)
(* pairwise disjoint interiors), P.refinement(P) == P.                     *)
C11_RefinementIdempotent ==
    (pc = "refined" /\ arg_other = self /\ is_pairwise_disjoint(self)) =>
        eq(refined, self)

(* C11, amended: for every pairwise disjoint partition P whose atoms have  *)
(* all a positive volume, P.refinement(P) == P; an atom of volume zero is  *)
(* dropped by the refinement.                                              *)
C11_RefinementIdempotentPositive ==
    (pc = "refined" /\ arg_other = self /\ is_pairwise_disjoint(self)
        /\ NoNullAtom(self)) =>
        eq(refined, self)

C11_Witness ==
    /\ pc = "refined" /\ arg_other = self
    /\ is_pairwise_disjoint(self) /\ NoNullAtom(self)
    /\ len(self) >= 2
    /\ \E k, l \in DOMAIN self : k # l /\ self[k] \cap self[l] # {}
    /\ eq(refined, self)

(* C12: for two pairwise disjoint partitions P and Q, is_pairwise_disjoint *)
(* returns True on P.refinement(Q).                                        *)
C12_RefinementDisjoint ==
    (pc = "refined" /\ is_pairwise_disjoint(self) /\ is_pairwise_disjoint(arg_other)) =>
        is_pairwise_disjoint(refined)

C12_Witness ==
    /\ pc = "refined"
    /\ is_pairwise_disjoint(self) /\ is_pairwise_disjoint(arg_other)
    /\ len(self) >= 2 /\ len(arg_other) >= 2
    /\ len(refined) >= 3
    /\ \E k, l \in DOMAIN refined : k # l /\ refined[k] \cap refined[l] # {}

(***************************************************************************)
(* Calls of the other methods of a partition: self.is_pairwise_disjoint(), *)
(* self.code(p), self.apply_transformation(trans), self.merge_atoms(d),    *)
(* self.keys_permutation(other) and self.rename_keys(d).  A call which     *)
(* returns leaves ret = [value |-> ...]; a call which raises leaves        *)
(* ret = [raise |-> ...], with no value.                                   *)
(***************************************************************************)
(* the same atom stored under two keys *)
DuplicatePartitions ==
    {[k \in {0, 1} |-> FullBox(r)] : r \in XRanges \cup SegmentRanges}

(* boxes of the unit square of the docstrings: columns of the grid, rows   *)
(* made of the two lowest bands                                            *)
TileRows == {<<0, 1>>, <<1, 2>>, <<0, 2>>}

TileColumns == {r \in XRanges : r[2] <= DocTrans.mod}

Tiles == TileColumns \X TileRows

Tile(t) == Box(t[1][1], t[1][2], t[2][1], t[2][2])

TileRank(t) == RangeRank(t[1]) * (NBands + 1) * (NBands + 1) + t[2][1] * (NBands + 1) + t[2][2]

TileOverlap(t, u) == Overlap(t[1], u[1]) /\ Overlap(t[2], u[2])

RECURSIVE TileSets(_)
TileSets(n) ==
    IF n = 0 THEN {{}}
    ELSE LET smaller == TileSets(n - 1)
         IN smaller \cup UNION {{S \cup {t} :
                                     t \in {u \in Tiles : \A v \in S : ~TileOverlap(u, v)}} :
                                 S \in smaller}

RECURSIVE TileSeq(_)
TileSeq(S) ==
    IF S = {} THEN << >>
    ELSE LET m == CHOOSE t \in S : \A u \in S : TileRank(t) <= TileRank(u)
         IN <<m>> \o TileSeq(S \ {m})

(* PolyhedronPartition([p, q, ...]) for boxes with disjoint interiors *)
TilePartitions ==
    {[k \in 0 .. (Cardinality(S) - 1) |-> Tile(TileSeq(S)[k + 1])] :
        S \in TileSets(MaxAtoms + 2) \ {{}}}

(* the partitions on which the methods are called: all atoms are boxes *)
BoxPartitions ==
    {ListPartition(S) : S \in InputSets} \cup {DictPartition(S) : S \in InputSets}
    \cup DegeneratePartitions \cup DuplicatePartitions \cup TilePartitions

InitMethods ==
    /\ self \in BoxPartitions
    /\ trans = DocTrans
    /\ trans_inv = DocTransInv
    /\ ieq = DocIeq
    /\ pc = "call"
    /\ raised = << >>
    /\ P = EmptyDict
    /\ level = 0
    /\ ans = EmptyDict
    /\ in_partition = EmptyDict
    /\ d = EmptyDict
    /\ return_time_dict = EmptyDict
    /\ substitution = EmptyDict
    /\ ncalls = 0
    /\ arg_other = EmptyDict
    /\ refined = EmptyDict
    /\ history = << >>
    /\ arg = << >>
    /\ ret = << >>

(* what a call of these methods leaves alone *)
untouched == <<self, trans, trans_inv, ieq, raised, P, level, ans, in_partition, d,
               return_time_dict, substitution, ncalls, arg_other, refined>>

(* itertools.permutations(ks, 2): the pairs of distinct positions, in order *)
permutations2(ks) ==
    LET n == Len(ks)
    IN [m \in 1 .. (n * (n - 1)) |->
           LET a == ((m - 1) \div (n - 1)) + 1
               b == ((m - 1) % (n - 1)) + 1
           IN <<ks[a], ks[IF b < a THEN b ELSE b + 1]>>]

(* "meet" in the place of "meet in a positive volume" *)
nonempty_intersection(Q, i, j) == Q[i] \cap Q[j] # {}

(* p.intersection(q).volume() > 0 for p = self[i], q = self[j] *)
positive_intersection(Q, i, j) == volume(Q[i] \cap Q[j]) > 0

(* the pairs of keys on which is_pairwise_disjoint would raise, in order *)
offending_pairs(Q) ==
    LET offends(ij) == positive_intersection(Q, ij[1], ij[2])
    IN SelectSeq(permutations2(keys(Q)), offends)

IsPairwiseDisjoint ==
    /\ pc = "call"
    /\ arg' = << >>
    /\ ret' = IF offending_pairs(self) = << >>
              THEN [value |-> TRUE]
              ELSE [raise |-> "ValueError", keys |-> Head(offending_pairs(self))]
    /\ pc' = "disjoint"
    /\ UNCHANGED <<untouched, history>>

(* the polytopes given to code: boxes, segments, and the atoms of self *)
Probes == {FullBox(r) : r \in XRanges \cup SegmentRanges} \cup {Tile(t) : t \in Tiles}

Code ==
    /\ pc = "call"
    /\ \E p \in cached_atoms_set(self) \cup Probes :
          /\ arg' = p
          /\ ret' = IF code_ok(self, p)
                    THEN [value |-> code(self, p)]
                    ELSE [raise |-> "ValueError",
                          message |-> IF code_list(self, p) = {}
                                      THEN "lies in no atom"
                                      ELSE "lies in more than one atoms"]
    /\ pc' = "coded"
    /\ UNCHANGED <<untouched, history>>

(* lambda p: p & Polyhedron(ieqs=[ieq]): the part of p on the left of x0 = h *)
Clips == {[ieq |-> i] : i \in LeftRegions}

Transformations == Rotations \cup Clips

(* Q.apply_transformation(t): the assert of the loop fails or the new    *)
(* partition is returned                                                   *)
transformed(Q, t) ==
    IF volume_preserved(Q, t)
    THEN [value |-> apply_transformation(Q, t)]
    ELSE [raise |-> "AssertionError"]

(* the images written into the receiver *)
ApplyTransformationInPlace ==
    /\ pc = "call"
    /\ \E f \in Transformations :
          /\ arg' = f
          /\ ret' = transformed(self, f)
          /\ self' = IF "value" \in DOMAIN transformed(self, f)
                     THEN transformed(self, f).value ELSE self
    /\ pc' = "applied"
    /\ UNCHANGED <<trans, trans_inv, ieq, raised, P, level, ans, in_partition, d,
                   return_time_dict, substitution, ncalls, arg_other, refined, history>>

ApplyTransformation ==
    /\ pc = "call"
    /\ \E f \in Transformations :
          /\ arg' = f
          /\ ret' = transformed(self, f)
    /\ pc' = "applied"
    /\ UNCHANGED <<untouched, history>>

(* self.apply_transformation(f).apply_transformation(g) *)
ApplyInverse ==
    /\ pc = "applied"
    /\ "value" \in DOMAIN ret
    /\ \E g \in Transformations :
          /\ arg' = g
          /\ ret' = transformed(ret.value, g)
    /\ history' = Append(history, [method |-> "apply_transformation",
                                    arg |-> arg, ret |-> ret])
    /\ pc' = "applied_back"
    /\ UNCHANGED untouched

(* the smallest and the largest coordinate i of the faces of p *)
Lo(p, i) == CHOOSE v \in {c[i] : c \in p} : \A c \in p : v <= c[i]

Hi(p, i) == CHOOSE v \in {c[i] : c \in p} : \A c \in p : c[i] <= v

(* the ordinate of the top of band b, in the units of volume *)
RECURSIVE Ordinate(_)
Ordinate(b) == IF b = 0 THEN 0 ELSE BandArea[b] + Ordinate(b - 1)

(* twice the volume of Polyhedron(p.vertices() + q.vertices()) for two     *)
(* boxes p and q: the bounding box less the triangle cut at each corner    *)
(* which neither box reaches                                               *)
hull_volume2(p, q) ==
    LET x1p == Lo(p, 1) \div 2
        x2p == Hi(p, 1) \div 2
        y1p == Ordinate(Lo(p, 2) \div 2)
        y2p == Ordinate(Hi(p, 2) \div 2)
        x1q == Lo(q, 1) \div 2
        x2q == Hi(q, 1) \div 2
        y1q == Ordinate(Lo(q, 2) \div 2)
        y2q == Ordinate(Hi(q, 2) \div 2)
        min(a, b) == IF a <= b THEN a ELSE b
        max(a, b) == IF a <= b THEN b ELSE a
        corner(dx, dy) == IF dx * dy < 0 THEN -(dx * dy) ELSE 0
    IN 2 * (max(x2p, x2q) - min(x1p, x1q)) * (max(y2p, y2q) - min(y1p, y1q))
       - corner(x1p - x1q, y1p - y1q) - corner(x2p - x2q, y2p - y2q)
       - corner(x2p - x2q, y1q - y1p) - corner(x1p - x1q, y2q - y2p)

(* the first operand in the place of the hull *)
first_operand(p, q) == p

(* r = Polyhedron(p.vertices() + q.vertices()) when can_merge holds: the   *)
(* hull of two boxes which fill it is their bounding box                   *)
convex_hull(p, q) ==
    (Lo(p \cup q, 1) .. Hi(p \cup q, 1)) \X (Lo(p \cup q, 2) .. Hi(p \cup q, 2))

can_merge(p, q) == hull_volume2(p, q) = 2 * (volume(p) + volume(q))

(* the while loop of merge_atoms on a set of atoms: each outcome of the    *)
(* loop, the pair found by exists(itertools.permutations(atoms, 2), ...)   *)
(* depending on the order in which the set is iterated                     *)
RECURSIVE merge_pairs(_)
merge_pairs(A) ==
    LET found == {t \in A \X A : t[1] # t[2] /\ can_merge(t[1], t[2])}
    IN IF found = {} THEN {A}
       ELSE UNION {merge_pairs((A \ {t[1], t[2]}) \cup {convex_hull(t[1], t[2])}) :
                      t \in found}

AZ == <<"a", "b", "c", "d", "e", "f", "g", "h", "i", "j", "k", "l", "m",
      "n", "o", "p", "q", "r", "s", "t", "u", "v", "w", "y", "x", "z",
      "A", "B", "C", "D", "E", "F", "G", "H", "I", "J", "K", "L", "M",
      "N", "O", "P", "Q", "R", "S", "T", "U", "V", "W", "Y", "X",
      "Z">>

(* the default split_label_function: the key '{}{}'.format(V, AZ[i]) is    *)
(* the pair <<V, AZ[i]>>; the key V itself is the pair <<V, "">>           *)
split_label_function(V, n) == [i \in 1 .. n |-> <<V, AZ[i]>>]

(* the orders in which a set can be iterated *)
RECURSIVE Orders(_)
Orders(A) ==
    IF A = {} THEN {<< >>}
    ELSE UNION {{<<a>> \o o : o \in Orders(A \ {a})} : a \in A}

(* the entries of final_atoms made for the target val from what the loop  *)
(* leaves                                                                  *)
labelled(val, A) ==
    IF Cardinality(A) = 1
    THEN {[key \in {<<val, "">>} |-> CHOOSE a \in A : TRUE]}
    ELSE LET new_vals == split_label_function(val, Cardinality(A))
         IN {[key \in {new_vals[i] : i \in DOMAIN new_vals} |->
                 o[CHOOSE i \in DOMAIN new_vals : new_vals[i] = key]] : o \in Orders(A)}

(* to_merge[val] *)
to_merge(dd, val) == {k \in DOMAIN dd : dd[k] = val}

RECURSIVE final_atoms(_, _, _)
final_atoms(Q, dd, vals) ==
    IF vals = << >> THEN {EmptyDict}
    ELSE LET group == {Q[k] : k \in to_merge(dd, Head(vals))}
             entries == UNION {labelled(Head(vals), A) : A \in merge_pairs(group)}
         IN {g @@ rest : g \in entries, rest \in final_atoms(Q, dd, Tail(vals))}

(* the partitions which Q.merge_atoms(dd) can return *)
merge_atoms(Q, dd) == final_atoms(Q, dd, KeySeq({dd[k] : k \in DOMAIN dd}))

Targets == {0, 1}

MergeAtoms ==
    /\ pc = "call"
    /\ \E dd \in [DOMAIN self -> Targets] :
          /\ arg' = dd
          /\ \E merged \in merge_atoms(self, dd) : ret' = [value |-> merged]
    /\ pc' = "merged"
    /\ UNCHANGED <<untouched, history>>

(* the partitions given to keys_permutation *)
Companions ==
    DegeneratePartitions \cup DuplicatePartitions
    \cup {DictPartition(S) : S \in InputSets}

KeysPermutation ==
    /\ pc = "call"
    /\ \E other \in Companions :
          /\ arg' = other
          /\ ret' = IF keys_permutation_ok(self, other)
                    THEN [value |-> keys_permutation(self, other)]
                    ELSE [raise |-> "ValueError"]
    /\ pc' = "permuted"
    /\ UNCHANGED <<untouched, history>>

(* the test of injectivity left out *)
rename_keys_unchecked(Q, dd) == TRUE

rename_keys_ok(Q, dd) == Cardinality({dd[k] : k \in DOMAIN dd}) >= Cardinality(DOMAIN dd)

rename_keys(Q, dd) ==
    [n \in {dd[k] : k \in DOMAIN Q} |-> Q[CHOOSE k \in DOMAIN Q : dd[k] = n]]

(* self.rename_keys(self.keys_permutation(other)) *)
RenameKeys ==
    /\ pc = "permuted"
    /\ "value" \in DOMAIN ret
    /\ arg' = ret.value
    /\ ret' = IF rename_keys_ok(self, ret.value)
              THEN [value |-> rename_keys(self, ret.value)]
              ELSE [raise |-> "ValueError"]
    /\ history' = Append(history, [method |-> "keys_permutation",
                                    arg |-> arg, ret |-> ret])
    /\ pc' = "renamed"
    /\ UNCHANGED untouched

(* the mappings given to rename_keys: a key sent onto another one, two    *)
(* keys exchanged, all keys shifted, one more key than Q has, one key less *)
RenameMaps(Q) ==
    LET K == DOMAIN Q
        extra == Cardinality(K) + GridW
    IN {[k \in K |-> IF k = a THEN b ELSE k] : a, b \in K}
       \cup {[k \in K |-> IF k = a THEN b ELSE IF k = b THEN a ELSE k] : a, b \in K}
       \cup {[k \in K |-> k + n] : n \in 1 .. GridW}
       \cup {[k \in K \cup {extra} |-> IF k = extra THEN b ELSE k] : b \in K \cup {extra}}
       \cup {[k \in K \ {a} |-> k] : a \in K}

(* Q.rename_keys(dd): ValueError if dd is not injective, KeyError from     *)
(* d[key] if dd lacks a key of Q                                           *)
renamed(Q, dd) ==
    IF ~rename_keys_ok(Q, dd) THEN [raise |-> "ValueError"]
    ELSE IF ~(DOMAIN Q \subseteq DOMAIN dd) THEN [raise |-> "KeyError"]
    ELSE [value |-> rename_keys(Q, dd)]

(* self.rename_keys(d) *)
RenameKeysWith ==
    /\ pc = "call"
    /\ \E dd \in RenameMaps(self) :
          /\ arg' = dd
          /\ ret' = renamed(self, dd)
    /\ pc' = "rekeyed"
    /\ UNCHANGED <<untouched, history>>

(* what self is compared with: a partition, self itself, self with its    *)
(* keys shifted, or the list of the atoms of self, which is no partition   *)
Comparands ==
    {[type |-> "PolyhedronPartition", value |-> Q] :
        Q \in Companions \cup {self}
              \cup {rename_keys(self, [k \in DOMAIN self |-> k + n]) : n \in 1 .. GridW}}
    \cup {[type |-> "list", value |-> atoms(self)]}

(* self == other and other == self, for a partition other; an object of    *)
(* another type has its own __eq__                                         *)
Eq ==
    /\ pc = "call"
    /\ \E other \in Comparands :
          /\ arg' = other
          /\ ret' = IF other.type = "PolyhedronPartition"
                    THEN [value |-> eq(self, other.value),
                          reflected |-> eq(other.value, self)]
                    ELSE [value |-> FALSE]
    /\ pc' = "compared"
    /\ UNCHANGED <<untouched, history>>

NextMethods ==
    \/ Eq
    \/ IsPairwiseDisjoint
    \/ Code
    \/ ApplyTransformation
    \/ ApplyInverse
    \/ MergeAtoms
    \/ KeysPermutation
    \/ RenameKeys
    \/ RenameKeysWith

SpecMethods == InitMethods /\ [][NextMethods]_vars

(***************************************************************************)
(* Contracts of the methods                                                *)
(***************************************************************************)
Returns == "value" \in DOMAIN ret

Raises(error) == "raise" \in DOMAIN ret /\ ret.raise = error /\ ~Returns

(* C13: is_pairwise_disjoint returns True if and only if the atoms under   *)
(* any two distinct keys meet in volume zero; otherwise it raises a        *)
(* ValueError naming two distinct keys whose atoms meet in a positive      *)
(* volume (the same atom under two keys included), and it never returns    *)
(* False.                                                                  *)
C13_IsPairwiseDisjoint ==
    pc = "disjoint" =>
        /\ Returns <=> is_pairwise_disjoint(self)
        /\ Returns => ret.value = TRUE
        /\ ~Returns =>
              /\ Raises("ValueError")
              /\ ret.keys[1] \in DOMAIN self /\ ret.keys[2] \in DOMAIN self
              /\ ret.keys[1] # ret.keys[2]
              /\ volume(self[ret.keys[1]] \cap self[ret.keys[2]]) > 0

C13_Witness ==
    /\ pc = "disjoint"
    /\ Raises("ValueError")
    /\ ret.keys[1] # ret.keys[2]
    /\ self[ret.keys[1]] = self[ret.keys[2]]

(* the keys of the atoms of self which contain the polytope p *)
Containing(p) == {k \in DOMAIN self : p \subseteq self[k]}

(* C14: code(p) returns the key k if and only if the atom under k is the   *)
(* only atom which contains p; when no atom or several atoms contain p it  *)
(* raises ValueError and returns no key.                                   *)
C14_Code ==
    pc = "coded" =>
        /\ \A k \in DOMAIN self :
              (Returns /\ ret.value = k) <=> (Containing(arg) = {k})
        /\ Returns => ret.value \in DOMAIN self
        /\ Cardinality(Containing(arg)) # 1 => Raises("ValueError")

C14_Witness ==
    /\ pc = "coded"
    /\ Raises("ValueError")
    /\ Cardinality(Containing(arg)) >= 2
    /\ volume(arg) > 0

(* C15, as stated: for every pairwise disjoint partition P and every key k *)
(* of P, P.code(P[k]) returns k.                                           *)
C15_CodeOfAtom ==
    (pc = "coded" /\ is_pairwise_disjoint(self)) =>
        \A k \in DOMAIN self : arg = self[k] => (Returns /\ ret.value = k)

(* C15, amended: for every pairwise disjoint partition P whose atoms have  *)
(* all a positive volume and every key k of P, P.code(P[k]) returns k; an  *)
(* atom of volume zero can lie in another atom, and code then raises       *)
(* ValueError.                                                             *)
C15_CodeOfPositiveAtom ==
    (pc = "coded" /\ is_pairwise_disjoint(self) /\ NoNullAtom(self)) =>
        \A k \in DOMAIN self : arg = self[k] => (Returns /\ ret.value = k)

C15_Witness ==
    /\ pc = "coded"
    /\ is_pairwise_disjoint(self) /\ NoNullAtom(self)
    /\ len(self) >= 3
    /\ \E k \in DOMAIN self :
          /\ arg = self[k] /\ Returns /\ ret.value = k
          /\ \E l \in DOMAIN self : l < k /\ self[l] \cap self[k] # {}

(* the first of the two calls self.apply_transformation(f)                 *)
(* .apply_transformation(g): history[1].arg is f, arg is g                  *)
RoundTrip == pc = "applied_back" /\ Len(history) = 1

(* g(f(p)) == p for every atom p of self *)
IsInverseOnAtoms(f, g) == \A k \in DOMAIN self : Apply(g, Apply(f, self[k])) = self[k]

(* C16: for a transformation f which preserves the volume of the atoms of  *)
(* P and a transformation f_inv with f_inv(f(p)) == p for every atom p of  *)
(* P, P.apply_transformation(f).apply_transformation(f_inv) == P, and each *)
(* atom comes back under its own key.                                      *)
C16_ApplyRoundTrip ==
    (RoundTrip /\ IsInverseOnAtoms(history[1].arg, arg)) =>
        /\ Returns
        /\ eq(ret.value, self)
        /\ DOMAIN ret.value = DOMAIN self
        /\ \A k \in DOMAIN self : ret.value[k] = self[k]

C16_Witness ==
    /\ RoundTrip /\ IsInverseOnAtoms(history[1].arg, arg)
    /\ len(self) >= 2
    /\ \A k \in DOMAIN self : history[1].ret.value[k] # self[k]
    /\ \E k, l \in DOMAIN self :
          Lo(history[1].ret.value[k], 1) > Lo(self[k], 1)
          /\ Lo(history[1].ret.value[l], 1) < Lo(self[l], 1)
    /\ Returns /\ eq(ret.value, self)

(* the transformation arg keeps the volume of every atom of self *)
KeepsVolumes == \A k \in DOMAIN self : volume(Apply(arg, self[k])) = volume(self[k])

(* C17: apply_transformation(f) returns a partition with the keys of self  *)
(* whose atom under each key k is f(self[k]); when the volume of f(atom)   *)
(* differs from the volume of the atom for some atom, the call fails with  *)
(* an AssertionError and returns no partition.                             *)
C17_ApplyTransformation ==
    pc = "applied" =>
        /\ KeepsVolumes =>
              /\ Returns
              /\ DOMAIN ret.value = DOMAIN self
              /\ \A k \in DOMAIN self : ret.value[k] = Apply(arg, self[k])
        /\ ~KeepsVolumes => Raises("AssertionError")

C17_Witness ==
    /\ pc = "applied"
    /\ Raises("AssertionError")
    /\ len(self) >= 2
    /\ volume(Apply(arg, self[keys(self)[1]])) = volume(self[keys(self)[1]])
    /\ volume(self[keys(self)[1]]) > 0

(* the keys of the result of merge_atoms made for the target t: t itself   *)
(* (the label "") or the split labels                                      *)
LabelsOf(t) == {key[2] : key \in {k \in DOMAIN ret.value : k[1] = t}}

(* the mapping arg sends exactly the two keys k and l to t, their atoms    *)
(* differ and the convex hull of their vertices has the volume of both     *)
ConvexPair(t, k, l) ==
    /\ k # l /\ to_merge(arg, t) = {k, l}
    /\ self[k] # self[l]
    /\ hull_volume2(self[k], self[l]) = 2 * (volume(self[k]) + volume(self[l]))

(* C18: when d sends exactly two keys to the target t and the union of     *)
(* their atoms is convex (the convex hull of the vertices of both has a    *)
(* volume equal to the sum of their volumes), merge_atoms(d) holds under   *)
(* the key t one atom, the union of the two, whose volume is that sum, and *)
(* holds no split label made from t.                                       *)
C18_MergeConvexPair ==
    pc = "merged" =>
        \A t \in Targets : \A k, l \in DOMAIN self :
            ConvexPair(t, k, l) =>
                /\ LabelsOf(t) = {""}
                /\ ret.value[<<t, "">>] = self[k] \cup self[l]
                /\ volume(ret.value[<<t, "">>]) = volume(self[k]) + volume(self[l])

C18_Witness ==
    /\ pc = "merged"
    /\ len(self) >= 3
    /\ \E t \in Targets : \E k, l \in DOMAIN self :
          /\ ConvexPair(t, k, l)
          /\ volume(self[k]) > 0 /\ volume(self[l]) > 0
          /\ Lo(self[k], 2) < Lo(self[l], 2)
          /\ ret.value[<<t, "">>] = self[k] \cup self[l]

(* the atoms which the mapping arg sends to the target t *)
Group(t) == {self[k] : k \in to_merge(arg, t)}

(* the first n letters of a, b, c, ... *)
Letters(n) == {AZ[i] : i \in 1 .. n}

(* no order of merging brings the atoms sent to t to one convex atom *)
NeverOne(t) == Group(t) # {} /\ \A A \in merge_pairs(Group(t)) : Cardinality(A) > 1

(* C19, as stated: when the atoms sent to t cannot all be merged into one  *)
(* convex atom, merge_atoms(d) has no key t; it has the keys made of t and *)
(* of 'a', 'b', 'c', ... in turn, one per piece, and their number is the   *)
(* number of convex pieces of the group whatever the order in which the    *)
(* pairs which can be merged are picked.                                   *)
C19_SplitWhateverOrder ==
    pc = "merged" =>
        \A t \in Targets : NeverOne(t) =>
            \A A \in merge_pairs(Group(t)) : LabelsOf(t) = Letters(Cardinality(A))

(* a call whose number of pieces for a target depends on the order: the    *)
(* result has more pieces than another order leaves                        *)
C19_OrderMatters ==
    /\ pc = "merged"
    /\ is_pairwise_disjoint(self) /\ NoNullAtom(self)
    /\ \E t \in Targets : \E A \in merge_pairs(Group(t)) :
          /\ Cardinality(A) > 1
          /\ Cardinality(LabelsOf(t)) > Cardinality(A)

(* C19, what holds in every order: a group left in n > 1 pieces gives no   *)
(* key t but the n keys made of t and of the first n letters, which hold   *)
(* pieces no two of which can be merged and which have together the volume *)
(* of the union of the group.                                              *)
C19_SplitLabels ==
    pc = "merged" =>
        \A t \in Targets : NeverOne(t) =>
            /\ "" \notin LabelsOf(t)
            /\ LabelsOf(t) = Letters(Cardinality(LabelsOf(t)))
            /\ {ret.value[<<t, x>>] : x \in LabelsOf(t)} \in merge_pairs(Group(t))
            /\ \A x, y \in LabelsOf(t) :
                  x # y => /\ ret.value[<<t, x>>] # ret.value[<<t, y>>]
                           /\ ~can_merge(ret.value[<<t, x>>], ret.value[<<t, y>>])

C19_SplitWitness ==
    /\ pc = "merged"
    /\ \E t \in Targets :
          /\ NeverOne(t)
          /\ Cardinality(Group(t)) >= 3
          /\ LabelsOf(t) = {"a", "b"}

(* no atom is stored under two keys *)
DistinctAtoms(Q) == \A k, l \in DOMAIN Q : k # l => Q[k] # Q[l]

(* the keys of P whose atom is an atom of Q, and the other keys of P *)
Present(Q, R) == {k \in DOMAIN Q : \E l \in DOMAIN R : R[l] = Q[k]}

Absent(Q, R) == DOMAIN Q \ Present(Q, R)

(* the m smallest naturals which are not in K *)
FirstUnused(K, m) ==
    {n \in 0 .. (Cardinality(K) + m - 1) :
        n \notin K /\ Cardinality({j \in 0 .. n : j \notin K}) <= m}

(* no atom of R which is an atom of Q lies in another atom of R *)
NotNested(Q, R) ==
    \A l \in DOMAIN R : (\E k \in DOMAIN Q : Q[k] = R[l]) =>
        \A j \in DOMAIN R : j # l => ~(R[l] \subseteq R[j])

(* what C20 says of the mapping m = Q.keys_permutation(R) *)
IsKeysPermutation(m, Q, R) ==
    /\ DOMAIN m = DOMAIN Q
    /\ \A k \in Present(Q, R) : m[k] \in DOMAIN R /\ R[m[k]] = Q[k]
    /\ {m[k] : k \in Absent(Q, R)} = FirstUnused(DOMAIN R, Cardinality(Absent(Q, R)))
    /\ \A k, l \in DOMAIN Q : k # l => m[k] # m[l]

(* the partition and the mapping of the call of keys_permutation, at its   *)
(* return and after the call of rename_keys which follows it               *)
PermutedOther == IF pc = "permuted" THEN arg ELSE history[1].arg

PermutedReturn == IF pc = "permuted" THEN ret ELSE history[1].ret

(* C20, as stated: for partitions P and Q with pairwise distinct atoms,    *)
(* P.keys_permutation(Q) returns a mapping defined on the keys of P which  *)
(* sends the key of an atom of P present in Q to the key of that atom in   *)
(* Q, and the keys of the atoms absent from Q to the smallest naturals     *)
(* which are neither keys of Q nor already assigned; it is injective and   *)
(* P.rename_keys of it succeeds.                                           *)
C20_KeysPermutation ==
    (pc \in {"permuted", "renamed"}
        /\ DistinctAtoms(self) /\ DistinctAtoms(PermutedOther)) =>
        /\ "value" \in DOMAIN PermutedReturn
        /\ IsKeysPermutation(PermutedReturn.value, self, PermutedOther)
        /\ pc = "renamed" => Returns

(* C20, amended: the same, for partitions P and Q with pairwise distinct   *)
(* atoms such that no atom of Q which is an atom of P lies in another atom *)
(* of Q; when one does, keys_permutation raises the ValueError of Q.code.  *)
C20_KeysPermutationNotNested ==
    (pc \in {"permuted", "renamed"}
        /\ DistinctAtoms(self) /\ DistinctAtoms(PermutedOther)) =>
        IF NotNested(self, PermutedOther)
        THEN /\ "value" \in DOMAIN PermutedReturn
             /\ IsKeysPermutation(PermutedReturn.value, self, PermutedOther)
             /\ pc = "renamed" =>
                   /\ Returns
                   /\ DOMAIN ret.value = {arg[k] : k \in DOMAIN self}
                   /\ \A k \in DOMAIN self : ret.value[arg[k]] = self[k]
        ELSE pc = "permuted" /\ Raises("ValueError")

C20_Witness ==
    /\ pc = "renamed"
    /\ DistinctAtoms(self) /\ DistinctAtoms(PermutedOther)
    /\ NotNested(self, PermutedOther)
    /\ Present(self, PermutedOther) # {}
    /\ Absent(self, PermutedOther) # {}
    /\ len(PermutedOther) >= 2
    /\ 0 \notin DOMAIN PermutedOther
    /\ \E k \in DOMAIN self : arg[k] # k
    /\ Returns

(* the mapping m sends no two keys to the same key *)
Injective(m) == \A a, b \in DOMAIN m : a # b => m[a] # m[b]

(* C21: rename_keys(d) raises ValueError and returns no partition when d   *)
(* is not injective; when d is injective and defined on every key of self, *)
(* it returns a partition with as many atoms as self which holds under     *)
(* d[k] the atom which self holds under k, hence a partition equal to self *)
(* as a set of atoms.                                                      *)
C21_RenameKeys ==
    pc = "rekeyed" =>
        /\ ~Injective(arg) => Raises("ValueError")
        /\ (Injective(arg) /\ DOMAIN self \subseteq DOMAIN arg) =>
              /\ Returns
              /\ len(ret.value) = len(self)
              /\ DOMAIN ret.value = {arg[k] : k \in DOMAIN self}
              /\ \A k \in DOMAIN self : ret.value[arg[k]] = self[k]
              /\ eq(ret.value, self)

C21_Witness ==
    /\ pc = "rekeyed"
    /\ Raises("ValueError")
    /\ len(self) >= 3
    /\ DOMAIN arg = DOMAIN self
    /\ DistinctAtoms(self)

(* every atom of Q is an atom of R *)
AtomsWithin(Q, R) == \A k \in DOMAIN Q : \E l \in DOMAIN R : R[l] = Q[k]

(* C22: P == Q if and only if the set of the atoms of P is the set of the  *)
(* atoms of Q, whatever the keys; equality is reflexive and symmetric, and *)
(* a partition whose keys were renamed is equal to the original.           *)
C22_Equality ==
    /\ (pc = "compared" /\ arg.type = "PolyhedronPartition") =>
          /\ ret.value = (AtomsWithin(self, arg.value) /\ AtomsWithin(arg.value, self))
          /\ ret.reflected = ret.value
          /\ arg.value = self => ret.value
    /\ (pc = "rekeyed" /\ Returns) =>
          (eq(ret.value, self) /\ eq(self, ret.value))

C22_Witness ==
    /\ pc = "compared"
    /\ arg.type = "PolyhedronPartition"
    /\ ret.value /\ ret.reflected
    /\ len(self) >= 2
    /\ DOMAIN arg.value \cap DOMAIN self # {}
    /\ \A k \in DOMAIN arg.value \cap DOMAIN self : arg.value[k] # self[k]

(***************************************************************************)
(* A call PolyhedronPartition(atoms, base_ring): self is the object under  *)
(* construction, ret.base_ring its attribute _base_ring                    *)
(***************************************************************************)
InitConstruct ==
    /\ self = EmptyDict
    /\ trans = DocTrans
    /\ trans_inv = DocTransInv
    /\ ieq = DocIeq
    /\ pc = "call"
    /\ raised = << >>
    /\ P = EmptyDict
    /\ level = 0
    /\ ans = EmptyDict
    /\ in_partition = EmptyDict
    /\ d = EmptyDict
    /\ return_time_dict = EmptyDict
    /\ substitution = EmptyDict
    /\ ncalls = 0
    /\ arg_other = EmptyDict
    /\ refined = EmptyDict
    /\ history = << >>
    /\ arg = << >>
    /\ ret = << >>

(* the arguments: a list, a dict or a tuple of boxes, none included, and   *)
(* a base ring or None                                                     *)
ConstructorInputs ==
    [container : {"list", "dict", "tuple"},
     atoms : InputSets \cup {{}},
     base_ring : {"None", "ZZ", "QQ"}]

(* atom.base_ring() for the atoms of the model *)
AtomRing == "QQ"

(* self._atoms *)
init_atoms(a) ==
    IF a.container = "list" THEN ListPartition(a.atoms) ELSE DictPartition(a.atoms)

(* self._base_ring: for an empty partition, line 216 compares base_ring    *)
(* with ZZ and assigns nothing                                             *)
init_base_ring(a) ==
    IF a.base_ring # "None" THEN a.base_ring
    ELSE IF len(init_atoms(a)) = 0 THEN "None"
    ELSE AtomRing

Construct ==
    /\ pc = "call"
    /\ \E a \in ConstructorInputs :
          /\ arg' = a
          /\ IF a.container = "tuple"
             THEN /\ ret' = [raise |-> "TypeError"]
                  /\ self' = self
             ELSE /\ ret' = [value |-> init_atoms(a), base_ring |-> init_base_ring(a)]
                  /\ self' = init_atoms(a)
    /\ pc' = "constructed"
    /\ UNCHANGED <<trans, trans_inv, ieq, raised, P, level, ans, in_partition, d,
                   return_time_dict, substitution, ncalls, arg_other, refined, history>>

SpecConstruct == InitConstruct /\ [][Construct]_vars

(* the constructor was given no atom and no base ring *)
EmptyWithoutRing ==
    /\ pc = "constructed"
    /\ arg.container \in {"list", "dict"}
    /\ arg.atoms = {}
    /\ arg.base_ring = "None"

(* C23: constructing a partition from an empty list or an empty mapping    *)
(* without a base ring fails at once and makes no partition.               *)
C23_EmptyWithoutRingFails == EmptyWithoutRing => ("raise" \in DOMAIN ret /\ ~Returns)

(* the same call returns a partition of no atom whose base ring is None *)
C23_EmptyConstructed ==
    /\ EmptyWithoutRing
    /\ Returns /\ len(ret.value) = 0 /\ ret.base_ring = "None"

(* C23, what the constructor does: it raises TypeError for a container     *)
(* which is neither a list nor a dict and returns in every other case; the *)
(* base ring is the one given, else that of the first atom, else None.     *)
C23_Constructor ==
    pc = "constructed" =>
        /\ arg.container = "tuple" => Raises("TypeError")
        /\ arg.container # "tuple" =>
              /\ Returns /\ len(ret.value) = Cardinality(arg.atoms)
              /\ (ret.base_ring = "None") <=> (arg.atoms = {} /\ arg.base_ring = "None")

(***************************************************************************)
(* Sequences of calls on one receiver: every method, one call after the    *)
(* other                                                                   *)
(***************************************************************************)
(* self.refinement(other) *)
Refine ==
    /\ pc = "call"
    /\ \E other \in Companions :
          /\ arg' = other
          /\ ret' = [value |-> refinement(self, other)]
    /\ pc' = "refined_by"
    /\ UNCHANGED <<untouched, history>>

(* Q.refine_by_hyperplane(i): the atoms of both refinements, in one list *)
refine_by_hyperplane(Q, i) ==
    LET A == refinement(Q, PartitionFromList(<<Polyhedron_ieqs(i)>>))
        B == refinement(Q, PartitionFromList(<<Polyhedron_ieqs(Negated(i))>>))
    IN PartitionFromList(atoms(A) \o atoms(B))

RefineByHyperplane ==
    /\ pc = "call"
    /\ \E i \in Inequalities :
          /\ arg' = i
          /\ ret' = [value |-> refine_by_hyperplane(self, i)]
    /\ pc' = "cut"
    /\ UNCHANGED <<untouched, history>>

(* Q.translation(displacement), for a displacement along x0 *)
translation(Q, displacement) == [k \in DOMAIN Q |-> Shift(Q[k], displacement)]

Translation ==
    /\ pc = "call"
    /\ \E displacement \in (-GridW) .. GridW :
          /\ arg' = displacement
          /\ ret' = [value |-> translation(self, displacement)]
    /\ pc' = "translated"
    /\ UNCHANGED <<untouched, history>>

(* the places where a call has returned or raised *)
Ended == {"raised", "returned", "compared", "disjoint", "coded", "applied",
          "applied_back", "merged", "permuted", "renamed", "rekeyed",
          "refined_by", "cut", "translated"}

(* the caller goes on to its next call on the same receiver: the locals    *)
(* and the results of the call which ended are dropped                     *)
NextCall ==
    /\ pc \in Ended
    /\ pc' = "call"
    /\ raised' = << >>
    /\ P' = EmptyDict
    /\ level' = 0
    /\ ans' = EmptyDict
    /\ in_partition' = EmptyDict
    /\ d' = EmptyDict
    /\ return_time_dict' = EmptyDict
    /\ substitution' = EmptyDict
    /\ ncalls' = 0
    /\ history' = << >>
    /\ arg' = << >>
    /\ ret' = << >>
    /\ UNCHANGED <<self, trans, trans_inv, ieq, arg_other, refined>>

NextCalls ==
    \/ NextMethods
    \/ Next
    \/ Refine
    \/ RefineByHyperplane
    \/ Translation
    \/ NextCall

SpecCalls == InitMethods /\ [][NextCalls]_vars

(* C24: no operation changes an existing partition: in every step of every *)
(* call of refinement, refine_by_hyperplane, apply_transformation,         *)
(* merge_atoms, rename_keys, keys_permutation, translation and the three   *)
(* inductions, whether the call returns or raises, the receiver keeps its  *)
(* keys and the atom under each key, and so does what was given as         *)
(* argument, as long as the call lasts and in the record of the calls      *)
(* which ended before.                                                     *)
C24_NoOperationChangesPartitions ==
    [][/\ self' = self
       /\ <<trans, trans_inv, ieq>>' = <<trans, trans_inv, ieq>>
       /\ (pc # "call" /\ pc' # "call" /\ history' = history) => arg' = arg
       /\ (pc' # "call") =>
             /\ Len(history') >= Len(history)
             /\ \A n \in 1 .. Len(history) : history'[n] = history[n]]_vars

C24_Witness ==
    /\ pc = "merged"
    /\ len(self) >= 3
    /\ len(ret.value) < len(self)
    /\ \E k \in DOMAIN ret.value : \A l \in DOMAIN self : ret.value[k] # self[l]

(***************************************************************************)
(* The map returned by rotation_mod and the map returned for the opposite  *)
(* angle, applied one after the other to a polytope of [0, mod]            *)
(***************************************************************************)
(* the boxes, segments and points of [0, mod] on which the map is applied *)
RotationRows == TileRows \cup {<<1, 1>>}

RotationInputs(t) ==
    {Box(r[1], r[2], s[1], s[2]) :
        r \in {q \in XRanges \cup SegmentRanges : q[2] <= t.mod}, s \in RotationRows}

(* t0 = rotation_mod(0, angle, mod, QQ), t0_inv = rotation_mod(0, mod - angle, mod, QQ) *)
InitRotation ==
    /\ self = EmptyDict
    /\ trans \in Rotations
    /\ trans_inv = [angle |-> trans.mod - trans.angle, mod |-> trans.mod]
    /\ ieq = DocIeq
    /\ pc = "call"
    /\ raised = << >>
    /\ P = EmptyDict
    /\ level = 0
    /\ ans = EmptyDict
    /\ in_partition = EmptyDict
    /\ d = EmptyDict
    /\ return_time_dict = EmptyDict
    /\ substitution = EmptyDict
    /\ ncalls = 0
    /\ arg_other = EmptyDict
    /\ refined = EmptyDict
    /\ history = << >>
    /\ arg = << >>
    /\ ret = << >>

(* t0(p) *)
Rotate ==
    /\ pc = "call"
    /\ \E p \in RotationInputs(trans) :
          /\ arg' = p
          /\ ret' = [value |-> rotation_mod(trans.angle, trans.mod, p)]
    /\ pc' = "rotated"
    /\ UNCHANGED <<untouched, history>>

(* t0_inv(t0(p)) *)
RotateBack ==
    /\ pc = "rotated"
    /\ history' = Append(history, [method |-> "trans", arg |-> arg, ret |-> ret])
    /\ arg' = ret.value
    /\ ret' = [value |-> rotation_mod(trans_inv.angle, trans_inv.mod, ret.value)]
    /\ pc' = "rotated_back"
    /\ UNCHANGED untouched

NextRotation == Rotate \/ RotateBack

SpecRotation == InitRotation /\ [][NextRotation]_vars

(* the polytope lies in the hyperplane x0 = 0 *)
OnTheEdge(p) == \A c \in p : c[1] = 0

(* C25 as stated: for every polytope p of [0, mod], t_inv(t(p)) == p and   *)
(* the volume of t(p) is the volume of p.                                  *)
C25_RotationInverse ==
    /\ pc = "rotated" => volume(ret.value) = volume(arg)
    /\ pc = "rotated_back" => ret.value = history[1].arg

(* C25: rotation_mod(0, mod - angle, mod, R) undoes rotation_mod(0, angle, *)
(* mod, R) on every polytope of [0, mod] which has a vertex with x0 > 0,   *)
(* and both maps keep the volume of every polytope; a polytope inside the  *)
(* hyperplane x0 = 0 comes back translated by mod.                         *)
C25_RotationInverseOffTheEdge ==
    /\ pc = "rotated" => volume(ret.value) = volume(arg)
    /\ pc = "rotated_back" =>
          /\ volume(ret.value) = volume(arg)
          /\ ~OnTheEdge(history[1].arg) => ret.value = history[1].arg
          /\ OnTheEdge(history[1].arg) =>
                ret.value = {<<2 * trans.mod, c[2]>> : c \in history[1].arg}

C25_Witness ==
    /\ pc = "rotated_back"
    /\ volume(history[1].arg) > 0
    /\ \E c \in history[1].arg : c[1] > 2 * (trans.mod - trans.angle)
    /\ arg # history[1].arg
    /\ ret.value = history[1].arg

C25_EdgeWitness ==
    /\ pc = "rotated_back"
    /\ OnTheEdge(history[1].arg)
    /\ ret.value # history[1].arg

(* the polytope has vertices on both sides of x0 = mod - angle *)
Straddles(p, t) ==
    /\ \E c \in p : c[1] < 2 * (t.mod - t.angle)
    /\ \E c \in p : c[1] > 2 * (t.mod - t.angle)

Within(p, mod) == \A c \in p : 0 <= c[1] /\ c[1] <= 2 * mod

(* C28: the map of rotation_mod moves the polytope as a whole: the image   *)
(* is the polytope translated along x0 by +angle when every vertex has     *)
(* x0 <= mod - angle and by angle - mod otherwise, x1 is unchanged, and    *)
(* the image of a polytope of [0, mod] lies in [0, mod] exactly when the   *)
(* polytope does not straddle x0 = mod - angle.                            *)
C28_RotationAsAWhole ==
    pc = "rotated" =>
        LET p == arg
            q == ret.value
            by == IF Hi(p, 1) <= 2 * (trans.mod - trans.angle)
                  THEN trans.angle ELSE trans.angle - trans.mod
        IN /\ q = {<<c[1] + 2 * by, c[2]>> : c \in p}
           /\ Hi(q, 1) - Lo(q, 1) = Hi(p, 1) - Lo(p, 1)
           /\ Lo(q, 2) = Lo(p, 2) /\ Hi(q, 2) = Hi(p, 2)
           /\ Within(p, trans.mod)
           /\ Within(q, trans.mod) <=> ~Straddles(p, trans)

C28_Witness ==
    /\ pc = "rotated"
    /\ Straddles(arg, trans)
    /\ Lo(ret.value, 1) < 0
    /\ volume(ret.value) = volume(arg)
    /\ volume(arg) > 0

(***************************************************************************)
(* Volumes along the loop of induced_out_partition                         *)
(***************************************************************************)
RECURSIVE SumVolumes(_, _)
SumVolumes(Q, K) ==
    IF K = {} THEN 0
    ELSE LET k == CHOOSE x \in K : TRUE
         IN volume(Q[k]) + SumVolumes(Q, K \ {k})

(* Q.volume(): the sum of the volumes of the atoms *)
partition_volume(Q) == SumVolumes(Q, DOMAIN Q)

(* the volume of all the partitions of a mapping from return times to      *)
(* partitions                                                              *)
RECURSIVE FamilyVolume(_, _)
FamilyVolume(family, K) ==
    IF K = {} THEN 0
    ELSE LET t == CHOOSE x \in K : TRUE
         IN partition_volume(family[t]) + FamilyVolume(family, K \ {t})

(* what has returned so far and what is carried on make up the region *)
VolumeKept ==
    FamilyVolume(ans, DOMAIN ans) + partition_volume(P)
        = partition_volume(refinement(self, half_part))

(* the atoms of self cover the fundamental domain [0, mod] of trans *)
CoversDomain ==
    \A c \in Box(0, trans.mod, 0, NBands) :
        IsCell(c) => \E k \in DOMAIN self : c \in self[k]

(* C26 as stated: at every level of the loop of induced_out_partition the  *)
(* volume returned so far plus the volume of the remainder is the volume   *)
(* of the induced region, and when the function returns the volumes of the *)
(* atoms of the result add up to the volume of the region.                 *)
C26_VolumeConserved == pc \in {"loop", "out_returned"} => VolumeKept

(* the case where C26 fails: self is a pairwise disjoint partition of the  *)
(* fundamental domain of the rotation, with an atom across the cut of the  *)
(* rotation, and the function returns less than the volume of the region   *)
C26_VolumeLost ==
    /\ pc = "out_returned"
    /\ is_pairwise_disjoint(self)
    /\ CoversDomain
    /\ IsInversePair
    /\ ~OneSide(self, trans)
    /\ FamilyVolume(ans, DOMAIN ans) < partition_volume(refinement(self, half_part))

(* C26, on partitions cut along the discontinuity of the rotation: for a   *)
(* pairwise disjoint partition of the fundamental domain with no atom      *)
(* across the cut, the volume is conserved at every level.                 *)
C26_VolumeConservedOnAdaptedPartitions ==
    (/\ pc \in {"loop", "out_returned"}
     /\ is_pairwise_disjoint(self)
     /\ CoversDomain
     /\ IsInversePair
     /\ OneSide(self, trans)) => VolumeKept

(***************************************************************************)
(* The loop of induced_out_partition on a remainder which never returns    *)
(***************************************************************************)
(* the number of places a polytope of positive volume can take inside the  *)
(* atoms of self, which lie in [0, GridW]: an orbit which stays longer in  *)
(* the atoms of self comes back to a place where it has been               *)
Places == GridW

(* p and its images by trans, up to N applications, lie outside the        *)
(* half-space (in out, the other side), in an atom of self, and have a     *)
(* positive volume                                                         *)
RECURSIVE StaysIn(_, _, _)
StaysIn(p, N, out) ==
    /\ p \subseteq out
    /\ \E k \in DOMAIN self : p \subseteq self[k]
    /\ volume(p) > 0
    /\ N = 0 \/ StaysIn(Apply(trans, p), N - 1, out)

StaysOut(p, N) == StaysIn(p, N, Polyhedron_ieqs(Negated(ieq)))

(* the loop holds a piece which stays out of the half-space for ever *)
Trapped == pc = "loop" /\ \E k \in DOMAIN P : StaysOut(P[k], Places)

(* C27: the loop of induced_out_partition is left only on an empty         *)
(* remainder; when the remainder holds a piece of positive volume which    *)
(* stays inside the atoms of self and outside the half-space under every   *)
(* further application of trans, every step of the call is an iteration of *)
(* the loop which adds one to level and leaves such a piece in the         *)
(* remainder: the call neither returns nor raises.                         *)
C27_TrappedRemainderLoops ==
    [][/\ (pc = "loop" /\ pc' = "out_returned") => len(P) = 0
       /\ Trapped => /\ len(P) > 0
                      /\ pc' = "loop"
                      /\ level' = level + 1
                      /\ raised' = raised
                      /\ Trapped']_vars

C27_Witness ==
    /\ Trapped
    /\ level = MaxLevel
    /\ raised = << >>
    /\ \A k \in DOMAIN P : ~(P[k] \subseteq Polyhedron_ieqs(ieq))

(***************************************************************************)
(* The keys minted by induced_partition                                    *)
(***************************************************************************)
(* the keys of the result whose atom is not an atom of self *)
MintedKeys == {k \in DOMAIN d : ~contains(self, d[k])}

(* the keys of the result whose atom is an atom of self *)
KeptKeys == {k \in DOMAIN d : contains(self, d[k])}

(* the number of atoms of the in-partition family which are not in self *)
RECURSIVE CountNew(_)
CountNew(T) ==
    IF T = {} THEN 0
    ELSE LET t == CHOOSE x \in T : TRUE
         IN Cardinality({k \in DOMAIN in_partition[t] : ~contains(self, in_partition[t][k])})
            + CountNew(T \ {t})

(* C30: in the result of induced_partition the atoms which are not atoms   *)
(* of self have the m smallest naturals which are not keys of reused atoms *)
(* of self, m being the number of these atoms; a key of self whose atom is *)
(* not reused is not left out.                                             *)
C30_MintedKeys ==
    pc \in {"recoded", "returned"} =>
        /\ Cardinality(MintedKeys) = CountNew(DOMAIN in_partition)
        /\ \A k \in KeptKeys : k \in DOMAIN self /\ self[k] = d[k]
        /\ \A k \in MintedKeys : \A b \in 0 .. (k - 1) : b \in KeptKeys \cup MintedKeys
        /\ \A k \in DOMAIN self \ KeptKeys :
              (\E j \in MintedKeys : k < j) => k \in MintedKeys

(* a new atom under a key which labels another atom in self *)
C30_Witness ==
    /\ pc = "returned"
    /\ KeptKeys # {}
    /\ \E k \in MintedKeys : k \in DOMAIN self /\ self[k] # d[k]
    /\ \E k \in MintedKeys : k \notin DOMAIN self

(***************************************************************************)
(* merge_atoms with targets which are integers or strings: the target V is *)
(* the pair <<V, "">> and the string '{}{}'.format(V, s) the pair <<V, s>> *)
(***************************************************************************)
(* the while loop of merge_atoms, with the number of its iterations *)
RECURSIVE merge_runs(_, _)
merge_runs(A, n) ==
    LET found == {t \in A \X A : t[1] # t[2] /\ can_merge(t[1], t[2])}
    IN IF found = {} THEN {[atoms |-> A, merges |-> n]}
       ELSE UNION {merge_runs((A \ {t[1], t[2]}) \cup {convex_hull(t[1], t[2])}, n + 1) :
                      t \in found}

(* '{}{}'.format(val, AZ[i]) *)
format(val, letter) == <<val[1], val[2] \o letter>>

(* the assignments final_atoms[val] = atom made for one target, in the     *)
(* order in which they are made, with the number of merges before them     *)
assignments(val, group) ==
    UNION {IF Cardinality(run.atoms) = 1
           THEN {[written |-> <<[key |-> val, atom |-> CHOOSE a \in run.atoms : TRUE]>>,
                  merges |-> run.merges]}
           ELSE {[written |-> [i \in 1 .. Cardinality(run.atoms) |->
                                  [key |-> format(val, AZ[i]), atom |-> o[i]]],
                  merges |-> run.merges] : o \in Orders(run.atoms)}
           : run \in merge_runs(group, 0)}

(* the loop over to_merge.items(), for one order of the targets *)
RECURSIVE final_writes(_, _, _)
final_writes(Q, dd, vals) ==
    IF vals = << >> THEN {[written |-> << >>, merges |-> 0]}
    ELSE {[written |-> g.written \o rest.written, merges |-> g.merges + rest.merges] :
             g \in assignments(Head(vals), {Q[k] : k \in to_merge(dd, Head(vals))}),
             rest \in final_writes(Q, dd, Tail(vals))}

(* the dict left by a sequence of assignments: a later one replaces an     *)
(* earlier one under the same key                                          *)
RECURSIVE stored(_)
stored(w) ==
    IF w = << >> THEN EmptyDict
    ELSE (w[Len(w)].key :> w[Len(w)].atom) @@ stored(SubSeq(w, 1, Len(w) - 1))

(* the targets: 0, 1 and the string '0a' *)
Labels == {<<0, "">>, <<1, "">>, <<0, "a">>}

(* self.merge_atoms(d), d with integers and strings as values *)
MergeAtomsLabels ==
    /\ pc = "call"
    /\ \E dd \in [DOMAIN self -> Labels] :
          /\ arg' = dd
          /\ \E vals \in Orders({dd[k] : k \in DOMAIN dd}) :
                \E run \in final_writes(self, dd, vals) :
                   ret' = [value |-> stored(run.written), written |-> run.written,
                           merges |-> run.merges]
    /\ pc' = "merged"
    /\ UNCHANGED <<untouched, history>>

NextMerge == MergeAtomsLabels

SpecMerge == InitMethods /\ [][NextMerge]_vars

(* no key of final_atoms is assigned twice *)
WrittenOnce(w) == \A m, n \in 1 .. Len(w) : m # n => w[m].key # w[n].key

(* the atom p of the receiver lies in exactly one atom of Q *)
InExactlyOne(p, Q) == Cardinality({j \in DOMAIN Q : p \subseteq Q[j]}) = 1

(* C29 as stated: on a pairwise disjoint partition, with d defined on the  *)
(* keys of the partition, merge_atoms returns a pairwise disjoint          *)
(* partition of the same total volume, every atom of the receiver lies in  *)
(* exactly one atom of the result, no key of the result is written twice   *)
(* and the loop makes at most len(P) - 1 merges.                           *)
C29_MergeKeepsAtoms ==
    (pc = "merged" /\ is_pairwise_disjoint(self)) =>
        /\ is_pairwise_disjoint(ret.value)
        /\ partition_volume(ret.value) = partition_volume(self)
        /\ \A k \in DOMAIN self : InExactlyOne(self[k], ret.value)
        /\ WrittenOnce(ret.written)
        /\ ret.merges <= len(self) - 1

(* the case where C29 fails: atoms of positive volume, a target which is   *)
(* the first label made for another target which is split, one key written *)
(* twice, an atom of the receiver in no atom of the result and volume lost *)
C29_AtomDropped ==
    /\ pc = "merged"
    /\ is_pairwise_disjoint(self)
    /\ \A k \in DOMAIN self : volume(self[k]) > 0
    /\ ~WrittenOnce(ret.written)
    /\ \E k \in DOMAIN self : \A j \in DOMAIN ret.value : ~(self[k] \subseteq ret.value[j])
    /\ partition_volume(ret.value) < partition_volume(self)

(* no target is a label which the split of another target makes *)
NoSplitLabel(dd) == \A k \in DOMAIN dd : dd[k][2] = ""

(* C29, for targets which are not split labels: the result is pairwise     *)
(* disjoint with the same volume, no key is written twice, every atom of   *)
(* the receiver lies in an atom of the result, in exactly one when it has  *)
(* a positive volume; whatever the targets, the result is pairwise         *)
(* disjoint and the loop makes at most len(P) - 1 merges.                  *)
C29_MergeWithoutSplitLabels ==
    (pc = "merged" /\ is_pairwise_disjoint(self)) =>
        /\ is_pairwise_disjoint(ret.value)
        /\ ret.merges <= len(self) - 1
        /\ NoSplitLabel(arg) =>
              /\ partition_volume(ret.value) = partition_volume(self)
              /\ WrittenOnce(ret.written)
              /\ \A k \in DOMAIN self :
                    /\ \E j \in DOMAIN ret.value : self[k] \subseteq ret.value[j]
                    /\ volume(self[k]) > 0 => InExactlyOne(self[k], ret.value)

====
